---- MODULE Spec2Model ----
(***************************************************************************)
(* Model of ChannelService (src/service/protocol/bluetooth.js): the Bluez  *)
(* object-manager mirror, the profile registration on name-owner changes,  *)
(* the ConnectProfile orchestration and the NewConnection handler.         *)
(*                                                                         *)
(* The service runs on one event loop.  A handler runs without             *)
(* interruption up to its next `await` of a bus round trip; each action    *)
(* below is one such run: a notification or method call being delivered,   *)
(* or a suspended handler being resumed by the reply it waits for.         *)
(***************************************************************************)
EXTENDS Integers, Sequences, FiniteSets

(* ------------------------------ bounds --------------------------------- *)
NumPaths == 1       \* device object paths the daemon may expose
MaxProxies == 2     \* device proxies created by _getDeviceProxy
MaxConns == 2       \* NewConnection calls
MaxPending == 2     \* unresolved ConnectProfile calls
MaxBinds == 2       \* g-name-owner notifications that report an owner
MaxExtra == 1       \* proxies, calls, requests and notifications beyond the
                    \* first of each kind, taken together
MaxDestroys == 2    \* destroy() calls

Paths == 1..NumPaths
ProxyIds == 1..MaxProxies
NoProxy == 0        \* Map.get() returning undefined
NoMuxer == 0        \* proxy._muxer === null
Causes == {"Connected", "ServicesResolved", "broadcast"}

VARIABLES
    daemon,     \* the daemon runs and owns its bus name
    owner,      \* this.g_name_owner !== null
    watching,   \* the notify::g-name-owner handler is connected
    profileManager, \* this._profileManager is a proxy (not null)
    devices,    \* this._devices: path -> proxy id, NoProxy when absent
    proxies,    \* every proxy _getDeviceProxy returned, in creation order
    adds,       \* _onInterfacesAdded calls from signals, suspended in
                \* _getDeviceProxy: path -> g_name_owner was set -> count
    binds,      \* one record per run of _onNameOwnerChanged with an owner
    pending,    \* unresolved ConnectProfile calls: proxy -> cause -> count
    conns,      \* one record per NewConnection call
    lastEvent,  \* per path, the last Device1 add / remove notification
    notified,   \* the keys of this._devices when notify('devices') was last
                \* emitted
    released    \* how often destroy() has released each bus resource,
                \* and the proxies it has called close() on

vars == <<daemon, owner, watching, profileManager, devices, proxies, adds, binds,
          pending, conns, lastEvent, notified, released>>

(* ------------------------------ helpers -------------------------------- *)
\* f[1] + ... + f[n]
RECURSIVE SumTo(_, _)
SumTo(f, n) == IF n = 0 THEN 0 ELSE f[n] + SumTo(f, n - 1)

PendingIn(pend, p) ==
    pend[p]["Connected"] + pend[p]["ServicesResolved"] + pend[p]["broadcast"]
PendingOf(p) == PendingIn(pending, p)
PendingTotalOf(pend) ==
    SumTo([p \in ProxyIds |-> PendingIn(pend, p)], MaxProxies)
PendingTotal == PendingTotalOf(pending)
AddsOf(path) == adds[path][TRUE] + adds[path][FALSE]
AddsTotal == SumTo([path \in Paths |-> AddsOf(path)], NumPaths)
BindAdds ==
    SumTo([i \in DOMAIN binds |->
              Len(binds[i].todo) + (IF binds[i].cur = 0 THEN 0 ELSE 1)],
          Len(binds))

\* Proxies that exist or that a suspended handler is about to create.
Reserved == Len(proxies) + AddsTotal + BindAdds

\* Daemon starts so far: one per owner notification, and the one whose
\* notification is still to come.
Starts == Len(binds) + (IF daemon /\ ~owner THEN 1 ELSE 0)

\* The bounds as one guard: r proxies, c NewConnection calls, q unresolved
\* ConnectProfile calls, b owner notifications and d destroy() calls fit the
\* model.
Over(n) == IF n > 1 THEN n - 1 ELSE 0
FitsAll(r, c, q, b, d) ==
    /\ r <= MaxProxies
    /\ c <= MaxConns
    /\ q <= MaxPending
    /\ b <= MaxBinds
    /\ d <= MaxDestroys
    /\ Over(r) + Over(c) + Over(q) + Over(b) + Over(d) <= MaxExtra
Fits(r, c, q, b) == FitsAll(r, c, q, b, released.subscription)

Init ==
    /\ daemon = FALSE
    /\ owner = FALSE
    /\ watching = TRUE
    /\ profileManager = TRUE
    /\ devices = [path \in Paths |-> NoProxy]
    /\ proxies = <<>>
    /\ adds = [path \in Paths |-> [o \in BOOLEAN |-> 0]]
    /\ binds = <<>>
    /\ pending = [p \in ProxyIds |-> [c \in Causes |-> 0]]
    /\ conns = <<>>
    /\ lastEvent = [path \in Paths |-> "none"]
    /\ notified = {}
    /\ released = [subscription |-> 0, profile |-> 0, profileManager |-> 0,
                   devices |-> {}]

(* --------------------------- device proxies ---------------------------- *)
Interfaces == {"org.bluez.Device1", "org.bluez.Battery1"}
DEVICE_IFACE == "org.bluez.Device1"

\* The proxy _getDeviceProxy returns: _muxer is null; the caller then
\* connects g-properties-changed.  Paired is the cached Device1 property.
\* named: g_name_owner was set when the proxy was constructed; a proxy made
\* for no name has no owner to load properties or receive signals from.
NewProxy(path, named, paired) ==
    [path |-> path, muxer |-> NoMuxer, sub |-> TRUE, named |-> named,
     paired |-> named /\ paired]

\* proxy.close(): closes the multiplexer connection the proxy refers to, if
\* any, and clears the reference.  Two results: the connections and the
\* proxies afterwards.
CloseConns(cs, px, p) ==
    IF px[p].muxer # NoMuxer
    THEN [cs EXCEPT ![px[p].muxer].open = FALSE]
    ELSE cs

CloseProxies(px, p) ==
    IF px[p].muxer # NoMuxer
    THEN [px EXCEPT ![p].muxer = NoMuxer]
    ELSE px

\* The Device1 address of the object at a path (the path names it).
Address(path) == path

(* --------------------------- object mirror ----------------------------- *)
\* vfunc_g_signal's guard, `!this.g_name_owner === null`, evaluated as
\* JavaScript evaluates it: `!` yields a boolean, which is then compared
\* with null by strict equality.
JsNot(v) == IF v = "null" THEN "true" ELSE "false"
SignalIgnored(o) == JsNot(IF o THEN "owner" ELSE "null") = "null"

\* this._devices.set(proxy.g_object_path, proxy) after the subscription
TrackedAfterAdd(devs, path, id) == [devs EXCEPT ![path] = id]

\* The keys of this._devices, which notify('devices') announces.
TrackedPaths(devs) == {path \in Paths : devs[path] # NoProxy}

\* InterfacesAdded delivered by vfunc_g_signal.  The service proxy watches
\* the well-known name, so a signal of a daemon that has just started can be
\* delivered while g_name_owner is still null.
SignalInterfacesAdded(path, ifaces) ==
    /\ daemon
    /\ ~SignalIgnored(owner)
    /\ lastEvent' = IF DEVICE_IFACE \in ifaces
                    THEN [lastEvent EXCEPT ![path] = "add"]
                    ELSE lastEvent
    /\ IF DEVICE_IFACE \in ifaces /\ devices[path] = NoProxy
       THEN /\ Fits(Reserved + 1, Len(conns), PendingTotal, Starts)
            /\ adds' = [adds EXCEPT ![path][owner] = @ + 1]
       ELSE UNCHANGED adds
    /\ UNCHANGED <<daemon, owner, watching, profileManager, devices, proxies, binds,
                   pending, conns, notified, released>>

\* _getDeviceProxy resolves for a handler started by a signal: the handler
\* subscribes, stores the proxy and notifies; or the proxy is undefined.
SignalAddResume(path, o, ok, paired) ==
    /\ adds[path][o] > 0
    /\ adds' = [adds EXCEPT ![path][o] = @ - 1]
    /\ IF ok
       THEN /\ proxies' = Append(proxies, NewProxy(path, o, paired))
            /\ devices' = TrackedAfterAdd(devices, path, Len(proxies) + 1)
            /\ notified' = TrackedPaths(devices')
       ELSE UNCHANGED <<proxies, devices, notified>>
    /\ UNCHANGED <<daemon, owner, watching, profileManager, binds, pending, conns,
                   lastEvent, released>>

\* InterfacesRemoved delivered by vfunc_g_signal.
SignalInterfacesRemoved(path, ifaces) ==
    /\ daemon
    /\ ~SignalIgnored(owner)
    /\ lastEvent' = IF DEVICE_IFACE \in ifaces
                    THEN [lastEvent EXCEPT ![path] = "remove"]
                    ELSE lastEvent
    /\ IF ifaces # {} /\ DEVICE_IFACE \in ifaces /\ devices[path] # NoProxy
       THEN LET p == devices[path] IN
            /\ conns' = CloseConns(conns, proxies, p)
            /\ proxies' = [CloseProxies(proxies, p) EXCEPT ![p].sub = FALSE]
            /\ devices' = [devices EXCEPT ![path] = NoProxy]
            /\ notified' = TrackedPaths(devices')
       ELSE UNCHANGED <<conns, proxies, devices, notified>>
    /\ UNCHANGED <<daemon, owner, watching, profileManager, adds, binds, pending,
                   released>>

(* ------------------------- name-owner changes -------------------------- *)
\* The device objects GetManagedObjects may report, in the order
\* Object.entries yields them.  Objects without the Device1 interface make
\* _onInterfacesAdded return at once and are left out.
ObjectLists ==
    {s \in UNION {[1..n -> Paths] : n \in 0..NumPaths} :
        \A i, j \in DOMAIN s : i # j => s[i] # s[j]}

\* The enumeration loop up to its next suspension: a path already in the
\* map makes _onInterfacesAdded return without awaiting the bus.
RECURSIVE SkipTracked(_, _)
SkipTracked(todo, devs) ==
    IF todo = <<>> THEN <<>>
    ELSE IF devs[Head(todo)] # NoProxy THEN SkipTracked(Tail(todo), devs)
    ELSE todo

\* o: g_name_owner is set when _getDeviceProxy constructs the proxy.
Enumerate(b, todo, devs, o) ==
    LET rest == SkipTracked(todo, devs) IN
    IF rest = <<>>
    THEN [b EXCEPT !.pc = "done", !.cur = 0, !.todo = <<>>]
    ELSE [b EXCEPT !.pc = "adding", !.cur = Head(rest), !.todo = Tail(rest),
                   !.named = o]

\* The profile object is on the bus: this._profile.destroy() has not run.
Exported == released.profile = 0

\* The daemon's side of a call made by the handler of notification i: it
\* can only succeed while the owner that notification reported is there.
CurrentOwner(i) == owner /\ i = Len(binds)

\* The daemon holds the profile: RegisterProfile succeeded with this owner.
Registered ==
    /\ owner
    /\ binds # <<>>
    /\ binds[Len(binds)].reg = "ok"

\* The daemon starts and takes its bus name; the service proxy has yet to
\* resolve the new owner.
DaemonStarted ==
    /\ ~daemon
    /\ Fits(Reserved, Len(conns), PendingTotal, Starts + 1)
    /\ daemon' = TRUE
    /\ UNCHANGED <<owner, watching, profileManager, devices, proxies, adds,
                   binds, pending, conns, lastEvent, notified, released>>

\* An owner notification that makes no RegisterProfile call.
BindRecordNoRegister(connected) ==
    [pc |-> "done", reg |-> "none", listed |-> FALSE,
     cur |-> 0, todo |-> <<>>, named |-> FALSE]

\* The record of an owner notification.  connected: the handler is connected
\* and runs; it calls RegisterProfile (reg: how that call ended; listed:
\* GetManagedObjects has returned the objects to add).
BindRecord(connected) ==
    IF connected
    THEN [pc |-> "register", reg |-> "pending", listed |-> FALSE,
          cur |-> 0, todo |-> <<>>, named |-> FALSE]
    ELSE [pc |-> "done", reg |-> "none", listed |-> FALSE,
          cur |-> 0, todo |-> <<>>, named |-> FALSE]

\* notify::g-name-owner with an owner: the handler, if still connected,
\* calls RegisterProfile and waits for the reply.
NameOwnerAppeared ==
    /\ daemon
    /\ ~owner
    /\ owner' = TRUE
    /\ binds' = Append(binds, BindRecord(watching))
    /\ UNCHANGED <<daemon, watching, profileManager, devices, proxies, adds,
                   pending, conns, lastEvent, notified, released>>

\* The devices after the loop of the unowned branch.
ClearedDevices(devs) == [path \in Paths |-> NoProxy]

\* The daemon is gone: notify::g-name-owner with no owner.  Every tracked proxy is unsubscribed
\* and deleted from the map; the GetManagedObjects call that follows has no
\* effect on the service.
NameOwnerLost ==
    /\ owner
    /\ daemon' = FALSE
    /\ owner' = FALSE
    /\ IF watching
       THEN LET gone == {devices[path] : path \in Paths} \ {NoProxy} IN
            /\ proxies' = [p \in DOMAIN proxies |->
                              IF p \in gone
                              THEN [proxies[p] EXCEPT !.sub = FALSE]
                              ELSE proxies[p]]
            /\ devices' = ClearedDevices(devices)
       ELSE UNCHANGED <<proxies, devices>>
    /\ UNCHANGED <<watching, profileManager, adds, binds, pending, conns,
                   lastEvent, notified, released>>

\* RegisterProfile returns; on success the handler calls GetManagedObjects,
\* on an error it logs and ends.
RegisterProfileReply(i, ok) ==
    /\ i \in DOMAIN binds
    /\ binds[i].pc = "register"
    /\ ok => CurrentOwner(i)
    /\ binds' = [binds EXCEPT ![i].pc = IF ok THEN "managed" ELSE "done",
                              ![i].reg = IF ok THEN "ok" ELSE "failed"]
    /\ UNCHANGED <<daemon, owner, watching, profileManager, devices, proxies, adds,
                   pending, conns, lastEvent, notified, released>>

\* GetManagedObjects returns (or fails): the loop over the objects starts.
GetManagedObjectsReply(i, ok, objs) ==
    /\ i \in DOMAIN binds
    /\ binds[i].pc = "managed"
    /\ ok => CurrentOwner(i)
    /\ IF ok
       THEN /\ Fits(Reserved + Len(objs), Len(conns), PendingTotal,
                    Starts)
            /\ binds' = [binds EXCEPT
                           ![i] = Enumerate([@ EXCEPT !.listed = TRUE], objs,
                                            devices, owner)]
            /\ lastEvent' = [path \in Paths |->
                                IF \E k \in DOMAIN objs : objs[k] = path
                                THEN "add" ELSE lastEvent[path]]
       ELSE /\ binds' = [binds EXCEPT ![i].pc = "done"]
            /\ UNCHANGED lastEvent
    /\ UNCHANGED <<daemon, owner, watching, profileManager, devices, proxies, adds,
                   pending, conns, notified, released>>

\* _getDeviceProxy resolves for the _onInterfacesAdded the loop awaits.
EnumAddResume(i, ok, paired) ==
    /\ i \in DOMAIN binds
    /\ binds[i].pc = "adding"
    /\ LET path == binds[i].cur
           devs == IF ok
                   THEN TrackedAfterAdd(devices, path, Len(proxies) + 1)
                   ELSE devices
       IN /\ proxies' = IF ok
                        THEN Append(proxies,
                                    NewProxy(path, binds[i].named, paired))
                        ELSE proxies
          /\ devices' = devs
          /\ notified' = IF ok THEN TrackedPaths(devs) ELSE notified
          /\ binds' = [binds EXCEPT
                         ![i] = Enumerate(@, binds[i].todo, devs, owner)]
    /\ UNCHANGED <<daemon, owner, watching, profileManager, adds, pending, conns,
                   lastEvent, released>>

(* ------------------------ connection orchestrator ---------------------- *)
Tri == {"absent", "true", "false"}
\* The change sets delivered: any combination of Connected and
\* ServicesResolved, and Paired reported on its own.
ChangeSets ==
    {cs \in [Connected : Tri, ServicesResolved : Tri, Paired : Tri] :
        cs.Paired = "absent"
        \/ (cs.Connected = "absent" /\ cs.ServicesResolved = "absent")}

\* _connectDevice without its Paired test.
ConnectIssuedUnpaired(px, p) == px[p].muxer = NoMuxer

\* _connectDevice's two tests: no _muxer, and the Paired property.
ConnectIssued(px, p) == px[p].muxer = NoMuxer /\ px[p].paired

\* _connectDevice(bludev): the unresolved ConnectProfile calls afterwards.
ConnectDevice(pend, px, p, cause) ==
    IF ConnectIssued(px, p)
    THEN [pend EXCEPT ![p][cause] = @ + 1]
    ELSE pend

\* RequestDisconnection(object_path): looks the device up and closes it.
DisconnectConns(cs, px, devs, path) ==
    IF devs[path] # NoProxy THEN CloseConns(cs, px, devs[path]) ELSE cs

DisconnectProxies(px, devs, path) ==
    IF devs[path] # NoProxy THEN CloseProxies(px, devs[path]) ELSE px

\* The branches with the ServicesResolved test first.
DeviceChangedCallResolvedFirst(changed) ==
    IF changed.ServicesResolved = "true" THEN "connect"
    ELSE IF changed.Connected = "true" THEN "connect"
    ELSE IF changed.Connected = "false" THEN "disconnect"
    ELSE "none"

\* The call _onDeviceChanged makes for a change set: hasOwnProperty
\* ('Connected') decides first, ServicesResolved is looked at only without it.
DeviceChangedCall(changed) ==
    IF changed.Connected # "absent"
    THEN IF changed.Connected = "true" THEN "connect" ELSE "disconnect"
    ELSE IF changed.ServicesResolved = "true" THEN "connect"
    ELSE "none"

\* The property that made _onDeviceChanged call _connectDevice.
ConnectCause(changed) ==
    IF changed.Connected = "true" THEN "Connected" ELSE "ServicesResolved"

\* g-properties-changed on a subscribed proxy, for a PropertiesChanged signal
\* of the daemon.  The proxy's property cache is updated before the signal
\* is emitted.
OnDeviceChanged(p, changed) ==
    /\ daemon
    /\ p \in DOMAIN proxies
    /\ proxies[p].sub
    /\ proxies[p].named
    /\ LET px == IF changed.Paired = "absent" THEN proxies
                 ELSE [proxies EXCEPT ![p].paired = (changed.Paired = "true")]
           call == DeviceChangedCall(changed)
       IN
       IF call = "connect"
       THEN /\ pending' = ConnectDevice(pending, px, p, ConnectCause(changed))
            /\ proxies' = px
            /\ UNCHANGED conns
       ELSE IF call = "disconnect"
       THEN /\ conns' = DisconnectConns(conns, px, devices, px[p].path)
            /\ proxies' = DisconnectProxies(px, devices, px[p].path)
            /\ UNCHANGED pending
       ELSE /\ proxies' = px
            /\ UNCHANGED <<pending, conns>>
    /\ Fits(Reserved, Len(conns), PendingTotalOf(pending'), Starts)
    /\ UNCHANGED <<daemon, owner, watching, profileManager, devices, adds, binds,
                   lastEvent, notified, released>>

\* broadcast(object_path)
Broadcast(path) ==
    /\ IF devices[path] # NoProxy
       THEN pending' = ConnectDevice(pending, proxies, devices[path],
                                     "broadcast")
       ELSE UNCHANGED pending
    /\ Fits(Reserved, Len(conns), PendingTotalOf(pending'), Starts)
    /\ UNCHANGED <<daemon, owner, watching, profileManager, devices, proxies, adds,
                   binds, conns, lastEvent, notified, released>>

\* ConnectProfile returns or fails; _connectDevice ends either way, an error
\* being caught and dropped.
ConnectProfileReply(p, cause, ok) ==
    /\ pending[p][cause] > 0
    /\ pending' = [pending EXCEPT ![p][cause] = @ - 1]
    /\ UNCHANGED <<daemon, owner, watching, profileManager, devices, proxies, adds,
                   binds, conns, lastEvent, notified, released>>

\* RequestDisconnection called by the daemon on the registered profile.
RequestDisconnection(path) ==
    /\ Registered
    /\ Exported
    /\ conns' = DisconnectConns(conns, proxies, devices, path)
    /\ proxies' = DisconnectProxies(proxies, devices, path)
    /\ UNCHANGED <<daemon, owner, watching, profileManager, devices, adds, binds,
                   pending, lastEvent, notified, released>>

(* --------------------------- NewConnection ----------------------------- *)
\* The identity negotiate() yields carries no transport fields (0).
NegotiatedIdentity == [bluetoothHost |-> 0, bluetoothPath |-> 0]

\* The annotation without the bluetoothPath assignment.
AnnotateHostOnly(identity, px, p) ==
    [identity EXCEPT !.bluetoothHost = Address(px[p].path)]

\* channel.identity.body.bluetoothHost / bluetoothPath are set from bludev.
Annotate(identity, px, p) ==
    [identity EXCEPT !.bluetoothHost = Address(px[p].path),
                     !.bluetoothPath = px[p].path]

\* A NewConnection call.  open: the stream of the call is open; pc: where
\* the handler is ("escaped": it ended by throwing out of its catch block);
\* neg, ens: how negotiate() and _ensureDevice() ended; ensure, attach: the
\* _ensureDevice and attach calls it made; identity: what it passed to
\* _ensureDevice.
NewConn(p, isOpen, pc) ==
    [proxy |-> p, open |-> isOpen, pc |-> pc, neg |-> "pending",
     ensure |-> 0, ens |-> "pending", attach |-> 0,
     identity |-> NegotiatedIdentity]

\* The try block's failure path: bludev.close(), then the warning.
CatchConns(cs, px, p, c) == [CloseConns(cs, px, p) EXCEPT ![c].pc = "failed"]

\* NewConnection(object_path, fd, fd_properties) up to `await negotiate`,
\* called by the daemon on the registered profile.
\* sockOk: Gio.Socket.new_from_fd accepts the descriptor.  With no proxy at
\* the path, bludev is undefined: the assignment to bludev._muxer throws,
\* and so does bludev.close() in the catch block.
NewConnection(path, sockOk) ==
    /\ Registered
    /\ Exported
    /\ Fits(Reserved, Len(conns) + 1, PendingTotal, Starts)
    /\ LET p == devices[path]
           c == Len(conns) + 1
       IN
       IF p = NoProxy
       THEN /\ conns' = Append(conns, NewConn(NoProxy, sockOk, "escaped"))
            /\ UNCHANGED proxies
       ELSE IF ~sockOk
       THEN /\ conns' = CatchConns(Append(conns, NewConn(p, FALSE, "try")),
                                   proxies, p, c)
            /\ proxies' = CloseProxies(proxies, p)
       ELSE /\ conns' = Append(conns, NewConn(p, TRUE, "negotiate"))
            /\ proxies' = [proxies EXCEPT ![p].muxer = c]
    /\ UNCHANGED <<daemon, owner, watching, profileManager, devices, adds, binds,
                   pending, lastEvent, notified, released>>

\* What the handler does once negotiate() has resolved: annotate, then call
\* _ensureDevice with the identity.
AfterNegotiate(conn, px) ==
    [conn EXCEPT !.neg = "ok", !.pc = "ensure", !.ensure = @ + 1,
                 !.identity = Annotate(conn.identity, px, conn.proxy)]

\* negotiate() resolves or rejects; the handshake cannot complete on a
\* connection that has been closed.
NegotiateReply(c, ok) ==
    /\ c \in DOMAIN conns
    /\ conns[c].pc = "negotiate"
    /\ ok => conns[c].open
    /\ IF ok
       THEN /\ conns' = [conns EXCEPT ![c] = AfterNegotiate(@, proxies)]
            /\ UNCHANGED proxies
       ELSE /\ conns' = CatchConns([conns EXCEPT ![c].neg = "fail"],
                                   proxies, conns[c].proxy, c)
            /\ proxies' = CloseProxies(proxies, conns[c].proxy)
    /\ UNCHANGED <<daemon, owner, watching, profileManager, devices, adds, binds,
                   pending, lastEvent, notified, released>>

\* What the handler does once _ensureDevice has resolved: channel.attach.
AfterEnsure(conn) ==
    [conn EXCEPT !.attach = @ + 1, !.pc = "done"]

\* _ensureDevice resolves or rejects; attachOk: attach() does not throw.
EnsureDeviceReply(c, ok, attachOk) ==
    /\ c \in DOMAIN conns
    /\ conns[c].pc = "ensure"
    /\ IF ok /\ attachOk
       THEN /\ conns' = [conns EXCEPT ![c] = AfterEnsure([@ EXCEPT
                                                            !.ens = "ok"])]
            /\ UNCHANGED proxies
       ELSE /\ conns' = CatchConns(
                           [conns EXCEPT ![c] =
                               IF ok THEN AfterEnsure([@ EXCEPT !.ens = "ok"])
                               ELSE [@ EXCEPT !.ens = "fail"]],
                           proxies, conns[c].proxy, c)
            /\ proxies' = CloseProxies(proxies, conns[c].proxy)
    /\ UNCHANGED <<daemon, owner, watching, profileManager, devices, adds, binds,
                   pending, lastEvent, notified, released>>

(* ------------------------------ teardown ------------------------------- *)
\* destroy(): the name-owner handler is disconnected, every tracked device
\* is closed, the profile is destroyed if set (it is never unset) and the
\* profile manager is destroyed and set to null if set.
Destroy ==
    /\ FitsAll(Reserved, Len(conns), PendingTotal, Starts,
               released.subscription + 1)
    /\ watching' = FALSE
    /\ profileManager' = FALSE
    /\ LET tracked == {devices[path] : path \in Paths} \ {NoProxy} IN
       /\ released' = [subscription |-> released.subscription + 1,
                       profile |-> released.profile + 1,
                       profileManager |-> IF profileManager
                                          THEN released.profileManager + 1
                                          ELSE released.profileManager,
                       devices |-> released.devices \cup tracked]
       /\ conns' = [c \in DOMAIN conns |->
                       IF \E p \in tracked : proxies[p].muxer = c
                       THEN [conns[c] EXCEPT !.open = FALSE]
                       ELSE conns[c]]
       /\ proxies' = [p \in DOMAIN proxies |->
                         IF p \in tracked
                         THEN [proxies[p] EXCEPT !.muxer = NoMuxer]
                         ELSE proxies[p]]
    /\ UNCHANGED <<daemon, owner, devices, adds, binds, pending, lastEvent,
                   notified>>

(* ---------------------------- specification ---------------------------- *)
Next ==
    \/ \E path \in Paths, ifaces \in SUBSET Interfaces :
          SignalInterfacesAdded(path, ifaces)
    \/ \E path \in Paths, o \in BOOLEAN, ok \in BOOLEAN, paired \in BOOLEAN :
          SignalAddResume(path, o, ok, paired)
    \/ \E path \in Paths, ifaces \in SUBSET Interfaces :
          SignalInterfacesRemoved(path, ifaces)
    \/ DaemonStarted
    \/ NameOwnerAppeared
    \/ NameOwnerLost
    \/ \E i \in 1..MaxBinds, ok \in BOOLEAN : RegisterProfileReply(i, ok)
    \/ \E i \in 1..MaxBinds, ok \in BOOLEAN, objs \in ObjectLists :
          GetManagedObjectsReply(i, ok, objs)
    \/ \E i \in 1..MaxBinds, ok \in BOOLEAN, paired \in BOOLEAN :
          EnumAddResume(i, ok, paired)
    \/ \E p \in ProxyIds, changed \in ChangeSets : OnDeviceChanged(p, changed)
    \/ \E path \in Paths : Broadcast(path)
    \/ \E p \in ProxyIds, cause \in Causes, ok \in BOOLEAN :
          ConnectProfileReply(p, cause, ok)
    \/ \E path \in Paths : RequestDisconnection(path)
    \/ \E path \in Paths, sockOk \in BOOLEAN : NewConnection(path, sockOk)
    \/ \E c \in 1..MaxConns, ok \in BOOLEAN : NegotiateReply(c, ok)
    \/ \E c \in 1..MaxConns, ok \in BOOLEAN, attachOk \in BOOLEAN :
          EnsureDeviceReply(c, ok, attachOk)
    \/ Destroy

Spec == Init /\ [][Next]_vars

(* ------------------------------- claims -------------------------------- *)
Tracked(p) == p \in DOMAIN proxies /\ devices[proxies[p].path] = p
OpenChannels(p) == {c \in DOMAIN conns : conns[c].proxy = p /\ conns[c].open}

\* The claims are stated for the running service (watching: destroy() has
\* not been called) unless they say otherwise.

\* C1: every device proxy has at most one open channel (a multiplexer
\* connection NewConnection created for it and nothing has closed yet).
C1_OneActiveChannel ==
    watching => \A p \in DOMAIN proxies : Cardinality(OpenChannels(p)) <= 1

\* C2: for a tracked, paired device with no channel and one unresolved
\* ConnectProfile request caused by Connected=true, a property change that
\* carries only ServicesResolved=true issues no further request.
C2_NoSecondRequest ==
    [][\A p \in ProxyIds :
          (/\ watching
           /\ Tracked(p)
           /\ proxies[p].paired
           /\ proxies[p].muxer = NoMuxer
           /\ pending[p]["Connected"] = 1
           /\ PendingOf(p) = 1
           /\ OnDeviceChanged(p, [Connected |-> "absent",
                                  ServicesResolved |-> "true",
                                  Paired |-> "absent"]))
          => PendingOf(p)' = PendingOf(p)]_vars

\* A property change for which _onDeviceChanged calls _connectDevice.
AsksConnect(changed) ==
    \/ changed.Connected = "true"
    \/ changed.Connected = "absent" /\ changed.ServicesResolved = "true"

\* The cached Paired property once a change set has been applied.
PairedAfter(p, changed) ==
    IF changed.Paired = "absent" THEN proxies[p].paired
    ELSE changed.Paired = "true"

C4_UnbindClosesChannels ==
    [][(owner /\ ~owner' /\ watching)
       => \A path \in Paths :
             LET p == devices[path] IN
             (p # NoProxy /\ proxies[p].muxer # NoMuxer)
             => ~conns'[proxies[p].muxer].open]_vars

\* C5: an _onInterfacesAdded that was suspended on proxy creation when the
\* owner was lost leaves the device map empty when it resumes with the
\* owner still absent.
C5_NoDeviceWhileUnbound ==
    [][\A path \in Paths, ok \in BOOLEAN, paired \in BOOLEAN :
          (~owner /\ watching /\ SignalAddResume(path, TRUE, ok, paired))
          => \A q \in Paths : devices'[q] = NoProxy]_vars

\* C6: a NewConnection for a path with no tracked device closes the stream,
\* makes no _ensureDevice and no attach call, and ends in its own error
\* handling.
C6_UntrackedHandled ==
    \A c \in DOMAIN conns :
        (watching /\ conns[c].proxy = NoProxy)
        => /\ ~conns[c].open
           /\ conns[c].pc = "failed"
           /\ conns[c].ensure = 0
           /\ conns[c].attach = 0

\* C7 as stated: a finished NewConnection on a tracked device whose
\* negotiation succeeded made exactly one _ensureDevice call and exactly one
\* attach call.
C7_OneEnsureOneAttach ==
    \A c \in DOMAIN conns :
        (/\ conns[c].proxy # NoProxy
         /\ conns[c].neg = "ok"
         /\ conns[c].pc \in {"done", "failed"})
        => conns[c].ensure = 1 /\ conns[c].attach = 1

\* C7 amended: a NewConnection on a tracked device makes no _ensureDevice or
\* attach call before negotiation succeeds; once it has, it has made exactly
\* one _ensureDevice call, with an identity that carries the device's
\* address and object path, and exactly one attach call once _ensureDevice
\* has resolved, none if it rejected.
C7_EnsureThenAttach ==
    \A c \in DOMAIN conns :
        LET k == conns[c] IN
        k.proxy # NoProxy
        => /\ k.neg # "ok" => k.ensure = 0 /\ k.attach = 0
           /\ k.neg = "ok"
              => /\ k.ensure = 1
                 /\ k.identity =
                       [bluetoothHost |-> Address(proxies[k.proxy].path),
                        bluetoothPath |-> proxies[k.proxy].path]
                 /\ k.attach = IF k.ens = "ok" THEN 1 ELSE 0
           /\ k.pc = "done" => k.ens = "ok"

\* C7 witness: a handler has gone through negotiate, _ensureDevice and attach.
C7_Witness ==
    \E c \in DOMAIN conns :
        /\ conns[c].proxy # NoProxy
        /\ conns[c].pc = "done"
        /\ conns[c].ensure = 1
        /\ conns[c].attach = 1

\* Every _onInterfacesAdded has run to its end.
AddsDone ==
    /\ AddsTotal = 0
    /\ \A i \in DOMAIN binds : binds[i].pc \in {"register", "done"}

\* C8: once all add handlers have completed, a path whose most recent
\* Device1 notification was a remove is not tracked.
C8_RemovedNotTracked ==
    \A path \in Paths :
        (watching /\ AddsDone /\ lastEvent[path] = "remove")
        => devices[path] = NoProxy

\* C9: however many add notifications a path gets, at most one proxy for it
\* holds a live g-properties-changed subscription (one the daemon's
\* PropertiesChanged signals reach).
C9_OneSubscription ==
    watching =>
    \A path \in Paths :
        Cardinality({p \in DOMAIN proxies :
                        /\ proxies[p].path = path
                        /\ proxies[p].sub
                        /\ proxies[p].named}) <= 1

\* C10: a ConnectProfile request is issued only while the daemon is bound
\* and RegisterProfile has succeeded with it.
C10_ConnectOnlyRegistered ==
    [][(watching /\ \E p \in ProxyIds : PendingOf(p)' > PendingOf(p))
       => Registered]_vars

\* C11: RegisterProfile is called for an owner notification only once the
\* managed objects have been enumerated and fed to the mirror, so the devices
\* of that time get tracked whether the registration succeeds or fails.
C11_EnumerateThenRegister ==
    \A i \in DOMAIN binds : binds[i].reg # "none" => binds[i].listed

\* The RegisterProfile calls made so far.
RegisterCalls == Cardinality({i \in DOMAIN binds : binds[i].reg # "none"})

\* C12: a RegisterProfile call is made only by the step that handles an
\* owner appearing (never without an owner), each such step of the running
\* service makes exactly one, and a registration failing makes none.
C12_RegisterOncePerBind ==
    [][/\ RegisterCalls' # RegisterCalls
          => /\ ~owner
             /\ owner'
             /\ RegisterCalls' = RegisterCalls + 1
       /\ (watching /\ ~owner /\ owner')
          => RegisterCalls' = RegisterCalls + 1
       /\ \A i \in 1..MaxBinds :
             RegisterProfileReply(i, FALSE)
             => /\ RegisterCalls' = RegisterCalls
                /\ binds'[i].pc = "done"
      ]_vars

\* C12 witness: the first registration failed and the next owner
\* notification has made its own call.
C12_Witness ==
    /\ Len(binds) = 2
    /\ binds[1].reg = "failed"
    /\ binds[2].reg = "pending"

\* C13: when a NewConnection on a tracked device (one whose proxy was made
\* for the daemon's owner) ends in its catch block,
\* the device has no open channel and no channel reference, the device map
\* and the ConnectProfile requests are as before, and no negotiation has been
\* started.
C13_FailureReleasesChannel ==
    [][\A c \in 1..MaxConns :
          (/\ watching
           /\ c \in DOMAIN conns'
           /\ conns'[c].pc = "failed"
           /\ proxies[conns'[c].proxy].named
           /\ (c \notin DOMAIN conns \/ conns[c].pc # "failed"))
          => LET p == conns'[c].proxy IN
             /\ proxies'[p].muxer = NoMuxer
             /\ \A k \in DOMAIN conns' :
                   conns'[k].proxy = p => ~conns'[k].open
             /\ devices' = devices
             /\ pending' = pending
             /\ \A k \in DOMAIN conns' :
                   conns'[k].pc = "negotiate"
                   => (k \in DOMAIN conns /\ conns[k].pc = "negotiate")
      ]_vars

\* C14: once the channel of an unfinished NewConnection has been closed, that
\* handler makes no _ensureDevice call and no attach call.
C14_CloseInterrupts ==
    [][\A c \in DOMAIN conns :
          (/\ conns[c].proxy # NoProxy
           /\ proxies[conns[c].proxy].named
           /\ ~conns[c].open
           /\ conns[c].pc \in {"negotiate", "ensure"})
          => /\ conns'[c].ensure = conns[c].ensure
             /\ conns'[c].attach = conns[c].attach
      ]_vars

\* C15: destroy() releases the name-owner subscription, the profile and the
\* profile manager at most once each however often it is called, and a call
\* after the first changes nothing else.
C15_DestroyIdempotent ==
    [][/\ released'.subscription <= 1
       /\ released'.profile <= 1
       /\ released'.profileManager <= 1
       /\ (released.subscription >= 1
           /\ released'.subscription # released.subscription)
          => UNCHANGED <<daemon, owner, watching, profileManager, devices,
                         proxies, adds, binds, pending, conns, lastEvent,
                         notified>>
      ]_vars

\* A notification with this change set can be delivered to proxy p, the
\* device tracked at its path, with room for one more ConnectProfile call.
Notifiable(p, changed) ==
    /\ watching
    /\ daemon
    /\ Tracked(p)
    /\ proxies[p].sub
    /\ proxies[p].named
    /\ changed.Paired = "absent"
    /\ Fits(Reserved, Len(conns), PendingTotal + 1, Starts)

\* _connectDevice would issue a request for p.
Idle(p) == proxies[p].muxer = NoMuxer /\ proxies[p].paired

C17_ChangeNotified ==
    [][(watching /\ TrackedPaths(devices') # TrackedPaths(devices))
       => notified' = TrackedPaths(devices')]_vars

\* C18: an InterfacesAdded or InterfacesRemoved signal delivered while
\* g_name_owner is null starts no handler and changes no tracked device.
C18_UnownedSignalsIgnored ==
    [][/\ \A path \in Paths, ifaces \in SUBSET Interfaces :
             (/\ watching
              /\ ~owner
              /\ \/ SignalInterfacesAdded(path, ifaces)
                 \/ SignalInterfacesRemoved(path, ifaces))
             => UNCHANGED <<devices, adds>>
       /\ \A path \in Paths, ok \in BOOLEAN, paired \in BOOLEAN :
             (watching /\ SignalAddResume(path, FALSE, ok, paired))
             => UNCHANGED devices
      ]_vars

\* C19: when the negotiation of a NewConnection fails, a channel that a
\* later NewConnection created for the same device stays open and stays the
\* device's channel.
C19_FailureSparesLaterChannel ==
    [][\A c, k \in DOMAIN conns :
          (/\ watching
           /\ c < k
           /\ conns[c].proxy # NoProxy
           /\ proxies[conns[c].proxy].named
           /\ conns[k].proxy = conns[c].proxy
           /\ conns[c].pc = "negotiate"
           /\ conns'[c].pc = "failed"
           /\ conns[k].open)
          => /\ conns'[k].open
             /\ proxies'[conns[k].proxy].muxer
                   = proxies[conns[k].proxy].muxer
      ]_vars

\* C20: once destroy() has run, no tracked device has a channel, and a
\* property-change notification on a device that was tracked when it ran
\* issues no ConnectProfile request.
C20_QuietAfterDestroy ==
    [][/\ ~watching'
          => \A path \in Paths :
                devices'[path] # NoProxy
                => proxies'[devices'[path]].muxer = NoMuxer
       /\ \A p \in ProxyIds, changed \in ChangeSets :
             (/\ ~watching
              /\ UNCHANGED <<devices, conns>>
              /\ Tracked(p)
              /\ p \in released.devices
              /\ OnDeviceChanged(p, changed))
             => PendingOf(p)' = PendingOf(p)
      ]_vars

====
